---- MODULE Spec2Model ----
(***************************************************************************)
(* Model of the SAE-204 hydrology repository:                              *)
(*   - recup_data.py : paginated import of Hub'Eau station records into   *)
(*     the six SQLite tables region, departement, commune, bassin,        *)
(*     cours_eau, station (INSERT OR IGNORE, foreign keys enforced);      *)
(*   - code/models/database.py, app/models.py, code/app.py : the read-only *)
(*     station lookups of the two front-ends.                              *)
(*                                                                         *)
(* Text values are TLA+ strings; NULL stands for Python None / SQL NULL.   *)
(* A station code is a sequence of characters, so that REPLACE(code,' ','')*)
(* is computed rather than assumed.  A coordinate is <<>> (null) or <<n>>. *)
(* The columns uri_*, etat_station, date_maj_station, coordonnee_x/y are   *)
(* nullable, unconstrained and copied verbatim; they are left out.         *)
(***************************************************************************)
EXTENDS Integers, Sequences, FiniteSets, TLC

VARIABLES
    source,           \* the records the API holds, served PAGE_SIZE per page
    run,              \* which execution of the script this is (1, 2, ...)
    pc,               \* position of the script: fetch, refs, station, pagecommit, halted
    exit,             \* why the script halted ("" while it runs)
    at,               \* position at which the script halted
    page,             \* recup_data.py `page`
    pdata,            \* recup_data.py `data`: the records of the current page
    idx,              \* index in pdata of the record of the `for rec in data` loop
    total_processed,  \* recup_data.py `total_processed`
    cur,              \* the store as the open connection sees it (uncommitted rows included)
    db,               \* the committed (durable) store
    requested,        \* pages requested by this run, in order
    completed,        \* pages of this run that reached the end-of-page commit
    prev,             \* committed store when this run started
    prevExit,         \* how the previous run ended ("" for the first run)
    key,              \* query layer: the station code looked up
    qop,              \* query layer: the lookup last performed
    result,           \* query layer: what the lookup returned
    checker           \* integrity-check script: which one, its position, its exit status

vars == <<source, run, pc, exit, at, page, pdata, idx, total_processed, cur, db,
          requested, completed, prev, prevExit, key, qop, result, checker>>

importVars == <<source, run, pc, exit, at, page, pdata, idx, total_processed, cur, db,
                requested, completed, prev, prevExit>>

queryVars == <<key, qop, result>>

-----------------------------------------------------------------------------
(* Bounds of the model. *)

\* records per page; recup_data.py sets 500, the model scales it down
PAGE_SIZE == 2

\* most records the API holds
MaxRecords == 3

\* executions of the script against the same store
MaxRuns == 2

\* longest station code / lookup key, in characters
MaxCodeLen == 3

-----------------------------------------------------------------------------
(* Values. *)

NULL == "NULL"

NullCode == <<"NULL">>

NoCoord == <<>>

\* Python truthiness of a text value: None and "" are falsy
Falsy(v) == v = NULL \/ v = ""

FalsyCode(c) == c = NullCode \/ c = <<>>

\* `rec.get(f) or None`
OrNone(v) == IF Falsy(v) THEN NULL ELSE v

OrNoneCode(c) == IF FalsyCode(c) THEN NullCode ELSE c

\* lines 209-230: the cleaned fields of one record
Normalize(rec) ==
    [code_region         |-> OrNone(rec.code_region),
     libelle_region      |-> OrNone(rec.libelle_region),
     code_departement    |-> OrNone(rec.code_departement),
     libelle_departement |-> OrNone(rec.libelle_departement),
     code_commune        |-> OrNone(rec.code_commune),
     libelle_commune     |-> OrNone(rec.libelle_commune),
     code_bassin         |-> OrNone(rec.code_bassin),
     libelle_bassin      |-> OrNone(rec.libelle_bassin),
     code_cours_eau      |-> OrNone(rec.code_cours_eau),
     libelle_cours_eau   |-> OrNone(rec.libelle_cours_eau),
     code_station        |-> OrNoneCode(rec.code_station),
     libelle_station     |-> OrNone(rec.libelle_station),
     latitude            |-> rec.latitude,
     longitude           |-> rec.longitude]

-----------------------------------------------------------------------------
(* The store: the schema of recup_data.py's docstring, foreign keys ON. *)

EmptyStore ==
    [region |-> {}, departement |-> {}, commune |-> {},
     bassin |-> {}, cours_eau |-> {}, station |-> <<>>]

Range(seq) == {seq[i] : i \in 1..Len(seq)}

RegionCodes(s) == {r.code_region : r \in s.region}

DepartementCodes(s) == {r.code_departement : r \in s.departement}

CommuneCodes(s) == {r.code_commune : r \in s.commune}

BassinCodes(s) == {r.code_bassin : r \in s.bassin}

CoursEauCodes(s) == {r.code_cours_eau : r \in s.cours_eau}

StationCodes(s) == {r.code_station : r \in Range(s.station)}

\* outcome of one statement: the store after it, and whether it raised
Done(s) == [st |-> s, raised |-> FALSE]

Raise(s) == [st |-> s, raised |-> TRUE]

\* mutant: the foreign_keys pragma left off
ForeignKeysOff(parentCodes, code) == TRUE

\* PRAGMA foreign_keys = ON: a new child row needs its parent row
ForeignKeyOk(parentCodes, code) == code = NULL \/ code \in parentCodes

\* mutant: INSERT OR REPLACE, the incoming row is written over a conflict
InsertOrReplace(s, conflict, fkOk, added) ==
    IF ~fkOk THEN Raise(s) ELSE Done(added)

\* INSERT OR IGNORE: a primary-key, UNIQUE or NOT NULL conflict skips the row
\* silently; a foreign-key violation is not ignored and raises IntegrityError.
InsertOrIgnore(s, conflict, fkOk, added) ==
    IF conflict THEN Done(s)
    ELSE IF ~fkOk THEN Raise(s)
    ELSE Done(added)

-----------------------------------------------------------------------------
(* recup_data.py section 3: the six insert functions. *)

insert_region(s, code_region, libelle_region) ==
    IF Falsy(code_region) \/ Falsy(libelle_region) THEN Done(s)
    ELSE InsertOrIgnore(s,
            code_region \in RegionCodes(s),
            TRUE,
            [s EXCEPT !.region = @ \cup
                {[code_region |-> code_region, libelle_region |-> libelle_region]}])

insert_departement(s, code_departement, libelle_departement, code_region) ==
    IF Falsy(code_departement) \/ Falsy(code_region) THEN Done(s)
    ELSE InsertOrIgnore(s,
            code_departement \in DepartementCodes(s),
            ForeignKeyOk(RegionCodes(s), code_region),
            [s EXCEPT !.departement = @ \cup
                {[code_departement |-> code_departement,
                  libelle_departement |-> libelle_departement,
                  code_region |-> code_region]}])

insert_commune(s, code_commune, libelle_commune, code_departement) ==
    IF Falsy(code_commune) \/ Falsy(code_departement) THEN Done(s)
    ELSE InsertOrIgnore(s,
            code_commune \in CommuneCodes(s),
            ForeignKeyOk(DepartementCodes(s), code_departement),
            [s EXCEPT !.commune = @ \cup
                {[code_commune |-> code_commune,
                  libelle_commune |-> libelle_commune,
                  code_departement |-> code_departement]}])

insert_bassin(s, code_bassin, libelle_bassin) ==
    IF Falsy(code_bassin) \/ Falsy(libelle_bassin) THEN Done(s)
    ELSE InsertOrIgnore(s,
            code_bassin \in BassinCodes(s),
            TRUE,
            [s EXCEPT !.bassin = @ \cup
                {[code_bassin |-> code_bassin, libelle_bassin |-> libelle_bassin]}])

insert_cours_eau(s, code_cours_eau, libelle_cours_eau) ==
    IF Falsy(code_cours_eau) \/ Falsy(libelle_cours_eau) THEN Done(s)
    ELSE InsertOrIgnore(s,
            code_cours_eau \in CoursEauCodes(s),
            TRUE,
            [s EXCEPT !.cours_eau = @ \cup
                {[code_cours_eau |-> code_cours_eau,
                  libelle_cours_eau |-> libelle_cours_eau]}])

\* mutant: a record without latitude is refused as well
MissingKeysOrLatitude(r) ==
    {f \in {"code_region", "code_departement", "code_commune",
            "code_bassin", "code_cours_eau"} : Falsy(r[f])}
    \cup {f \in {"latitude"} : r[f] = NoCoord}

\* lines 143-157: the five `if not code_x: return` guards
MissingKeys(r) ==
    {f \in {"code_region", "code_departement", "code_commune",
            "code_bassin", "code_cours_eau"} : Falsy(r[f])}

StationRow(r) ==
    [code_station     |-> r.code_station,
     libelle_station  |-> r.libelle_station,
     latitude         |-> r.latitude,
     longitude        |-> r.longitude,
     code_region      |-> r.code_region,
     code_departement |-> r.code_departement,
     code_commune     |-> r.code_commune,
     code_bassin      |-> r.code_bassin,
     code_cours_eau   |-> r.code_cours_eau]

\* the station table's constraints: code_station UNIQUE NOT NULL,
\* libelle_station NOT NULL, five NOT NULL foreign keys
StationConflict(s, r) ==
    \/ r.code_station = NullCode
    \/ r.libelle_station = NULL
    \/ r.code_region = NULL
    \/ r.code_departement = NULL
    \/ r.code_commune = NULL
    \/ r.code_bassin = NULL
    \/ r.code_cours_eau = NULL
    \/ r.code_station \in StationCodes(s)

StationForeignKeysOk(s, r) ==
    /\ ForeignKeyOk(RegionCodes(s), r.code_region)
    /\ ForeignKeyOk(DepartementCodes(s), r.code_departement)
    /\ ForeignKeyOk(CommuneCodes(s), r.code_commune)
    /\ ForeignKeyOk(BassinCodes(s), r.code_bassin)
    /\ ForeignKeyOk(CoursEauCodes(s), r.code_cours_eau)

\* r is a cleaned record; the IntegrityError of the INSERT is caught (line 176)
insert_station(s, r) ==
    IF MissingKeys(r) # {} THEN Done(s)
    ELSE Done(InsertOrIgnore(s,
                StationConflict(s, r),
                StationForeignKeysOk(s, r),
                [s EXCEPT !.station = Append(@, StationRow(r))]).st)

\* mutant: the reference inserts ordered child before parent
ReferenceInsertsChildFirst(s, r) ==
    LET a == insert_commune(s, r.code_commune, r.libelle_commune,
                            r.code_departement)
        b == insert_departement(a.st, r.code_departement, r.libelle_departement,
                                r.code_region)
        c == insert_region(b.st, r.code_region, r.libelle_region)
        d == insert_bassin(c.st, r.code_bassin, r.libelle_bassin)
        e == insert_cours_eau(d.st, r.code_cours_eau, r.libelle_cours_eau)
    IN  IF a.raised THEN a
        ELSE IF b.raised THEN b
        ELSE IF c.raised THEN c
        ELSE IF d.raised THEN d
        ELSE e

\* lines 233-237: the five reference inserts, in order; the first one that
\* raises ends the sequence (none of them catches the exception)
ReferenceInserts(s, r) ==
    LET a == insert_region(s, r.code_region, r.libelle_region)
        b == insert_departement(a.st, r.code_departement, r.libelle_departement,
                                r.code_region)
        c == insert_commune(b.st, r.code_commune, r.libelle_commune,
                            r.code_departement)
        d == insert_bassin(c.st, r.code_bassin, r.libelle_bassin)
        e == insert_cours_eau(d.st, r.code_cours_eau, r.libelle_cours_eau)
    IN  IF a.raised THEN a
        ELSE IF b.raised THEN b
        ELSE IF c.raised THEN c
        ELSE IF d.raised THEN d
        ELSE e

-----------------------------------------------------------------------------
(* The records the API may hold. *)

Base ==
    [code_region         |-> "R1",  libelle_region      |-> "Auvergne",
     code_departement    |-> "D1",  libelle_departement |-> "Cantal",
     code_commune        |-> "C1",  libelle_commune     |-> "Aurillac",
     code_bassin         |-> "B1",  libelle_bassin      |-> "Adour-Garonne",
     code_cours_eau      |-> "W1",  libelle_cours_eau   |-> "Jordanne",
     code_station        |-> <<"A", "1">>,
     libelle_station     |-> "Jordanne a Aurillac",
     latitude            |-> <<45>>, longitude          |-> <<2>>]

\* the natural keys of Base with another region, other labels and coordinates
Alt ==
    [Base EXCEPT !.code_region = "R2", !.libelle_region = "Occitanie",
                 !.libelle_departement = "Lot", !.libelle_commune = "Figeac",
                 !.libelle_bassin = "Garonne", !.libelle_cours_eau = "Cele",
                 !.libelle_station = "Cele a Figeac",
                 !.latitude = <<44>>, !.longitude = <<3>>]

\* a second station, whose code arrives with an embedded space
Spaced == [Base EXCEPT !.code_station = <<"A", " ", "1">>,
                       !.libelle_station = "Jordanne amont"]

NoRegionLabel == [Spaced EXCEPT !.libelle_region = ""]

NoRegionCode == [Spaced EXCEPT !.code_region = NULL]

NoBassinLabel == [Spaced EXCEPT !.libelle_bassin = ""]

NoCoursCode == [Spaced EXCEPT !.code_cours_eau = ""]

Lat95 == [Spaced EXCEPT !.latitude = <<95>>]

Records ==
    {Base, Alt, Spaced, NoRegionLabel, NoRegionCode, NoBassinLabel, NoCoursCode, Lat95}

\* every sequence of at most n records
RECURSIVE SeqsUpTo(_, _)
SeqsUpTo(S, n) ==
    IF n = 0 THEN {<<>>}
    ELSE LET shorter == SeqsUpTo(S, n - 1)
         IN  shorter \cup {Append(q, x) : q \in {w \in shorter : Len(w) = n - 1}, x \in S}

Sources == SeqsUpTo(Records, MaxRecords)

Min(a, b) == IF a < b THEN a ELSE b

\* the `data` array the API answers for ?size=PAGE_SIZE&page=p
PageOf(src, p) ==
    SubSeq(src, (p - 1) * PAGE_SIZE + 1, Min(p * PAGE_SIZE, Len(src)))

\* no integrity-check script is running
NoChecker == [script |-> "", pc |-> "", table |-> 0, status |-> -1,
              exists |-> TRUE, integrity |-> "ok", report |-> <<>>]

-----------------------------------------------------------------------------
(* recup_data.py section 4: the pagination loop, one action per step. *)

Init ==
    /\ source \in Sources
    /\ run = 1
    /\ pc = "fetch"
    /\ exit = ""
    /\ at = ""
    /\ page = 1
    /\ pdata = <<>>
    /\ idx = 0
    /\ total_processed = 0
    /\ cur = EmptyStore
    /\ db = EmptyStore
    /\ requested = <<>>
    /\ completed = 0
    /\ prev = EmptyStore
    /\ prevExit = ""
    /\ key = <<>>
    /\ qop = ""
    /\ result = <<>>
    /\ checker = NoChecker

\* the script ends: the connection is closed, uncommitted rows are lost
Halt(why) ==
    /\ pc' = "halted"
    /\ exit' = why
    /\ at' = pc
    /\ cur' = db

\* mutant: the failure is logged and the loop goes on with the next page
FetchFailedSkipsPage ==
    /\ pc' = "fetch"
    /\ page' = page + 1
    /\ exit' = "http_error"
    /\ at' = pc
    /\ UNCHANGED <<pdata, idx, cur, db>>

\* lines 196-198: requests.get or raise_for_status raised RequestException
FetchFailed ==
    /\ Halt("http_error")
    /\ UNCHANGED <<page, pdata, idx, db>>

\* lines 200-206: the page arrived
FetchOk(data) ==
    IF data = <<>>
    THEN /\ Halt("no_data")
         /\ UNCHANGED <<page, pdata, idx, db>>
    ELSE /\ pc' = "refs"
         /\ pdata' = data
         /\ idx' = 1
         /\ UNCHANGED <<page, exit, at, cur, db>>

\* lines 187-206
Fetch ==
    /\ pc = "fetch"
    /\ requested' = Append(requested, page)
    /\ \/ FetchFailed
       \/ FetchOk(PageOf(source, page))
    /\ UNCHANGED <<source, run, total_processed, completed, prev, prevExit>>
    /\ UNCHANGED <<queryVars, checker>>

\* mutant: no commit before the end of the page
SkipIntermediateCommit(committed, s) == committed

\* line 240: the commit between the reference inserts and the station insert
IntermediateCommit(committed, s) == s

\* line 258: the end-of-page commit
Commit(s) == s

\* lines 207-240: clean the record, insert its reference rows, commit;
\* an IntegrityError of a reference insert is caught nowhere and ends the script
ProcessRefs ==
    /\ pc = "refs"
    /\ LET out == ReferenceInserts(cur, Normalize(pdata[idx]))
       IN  IF out.raised
           THEN /\ Halt("IntegrityError")
                /\ UNCHANGED db
           ELSE /\ cur' = out.st
                /\ db' = IntermediateCommit(db, out.st)
                /\ pc' = "station"
                /\ UNCHANGED <<exit, at>>
    /\ UNCHANGED <<source, run, page, pdata, idx, total_processed, requested,
                   completed, prev, prevExit>>
    /\ UNCHANGED <<queryVars, checker>>

\* lines 242-255: insert the station (uncommitted), count the record
ProcessStation ==
    /\ pc = "station"
    /\ cur' = insert_station(cur, Normalize(pdata[idx])).st
    /\ total_processed' = total_processed + 1
    /\ IF idx < Len(pdata)
       THEN idx' = idx + 1 /\ pc' = "refs"
       ELSE idx' = idx /\ pc' = "pagecommit"
    /\ UNCHANGED <<source, run, exit, at, page, pdata, db, requested, completed,
                   prev, prevExit>>
    /\ UNCHANGED <<queryVars, checker>>

\* mutant: a full page is taken for the last one
LastPageOffByOne(data) == Len(data) <= PAGE_SIZE

\* line 262: fewer than PAGE_SIZE records means the last page
LastPage(data) == Len(data) < PAGE_SIZE

\* lines 257-267: end-of-page commit, last-page test, next page
PageCommit ==
    /\ pc = "pagecommit"
    /\ db' = Commit(cur)
    /\ completed' = completed + 1
    /\ IF LastPage(pdata)
       THEN /\ pc' = "halted"
            /\ exit' = "last_page"
            /\ at' = pc
            /\ UNCHANGED page
       ELSE /\ pc' = "fetch"
            /\ page' = page + 1
            /\ UNCHANGED <<exit, at>>
    /\ UNCHANGED <<source, run, pdata, idx, total_processed, cur, requested,
                   prev, prevExit>>
    /\ UNCHANGED <<queryVars, checker>>

\* the process is killed (no cancellation handling in the script)
Interrupt ==
    /\ pc \in {"fetch", "refs", "station", "pagecommit"}
    /\ Halt("interrupt")
    /\ UNCHANGED <<source, run, page, pdata, idx, total_processed, db, requested,
                   completed, prev, prevExit>>
    /\ UNCHANGED <<queryVars, checker>>

\* the script is run again on the store the previous run left (lines 62-70, 183-184)
Rerun ==
    /\ pc = "halted"
    /\ run < MaxRuns
    /\ run' = run + 1
    /\ pc' = "fetch"
    /\ exit' = ""
    /\ at' = ""
    /\ page' = 1
    /\ pdata' = <<>>
    /\ idx' = 0
    /\ total_processed' = 0
    /\ cur' = db
    /\ requested' = <<>>
    /\ completed' = 0
    /\ prev' = db
    /\ prevExit' = exit
    /\ UNCHANGED <<source, db>>
    /\ UNCHANGED <<queryVars, checker>>

Next ==
    \/ Fetch
    \/ ProcessRefs
    \/ ProcessStation
    \/ PageCommit
    \/ Interrupt
    \/ Rerun

Spec == Init /\ [][Next]_vars

-----------------------------------------------------------------------------
(* One record of any shape, processed on a store an import has left. *)

\* every combination of present and absent fields (None or "" when absent)
AllRecords ==
    [code_region         : {NULL, "R1"},
     libelle_region      : {"", "Auvergne"},
     code_departement    : {NULL, "D1"},
     libelle_departement : {"", "Cantal"},
     code_commune        : {NULL, "C1"},
     libelle_commune     : {"", "Aurillac"},
     code_bassin         : {NULL, "B1"},
     libelle_bassin      : {"", "Adour-Garonne"},
     code_cours_eau      : {NULL, "", "W1"},
     libelle_cours_eau   : {"", "Jordanne"},
     code_station        : {<<>>, <<"A", "1">>},
     libelle_station     : {NULL, "Jordanne a Aurillac"},
     latitude            : {NoCoord, <<45>>, <<95>>},
     longitude           : {<<2>>, <<200>>}]

\* stores left by an earlier page
SeedStores ==
    {EmptyStore} \cup
    {insert_station(ReferenceInserts(EmptyStore, Normalize(r)).st, Normalize(r)).st :
        r \in {Alt, NoCoursCode}}

\* the loop is about to process the only record of a one-record page
InitRecord ==
    /\ \E rec \in AllRecords : source = <<rec>> /\ pdata = <<rec>>
    /\ \E seed \in SeedStores : cur = seed /\ db = seed /\ prev = seed
    /\ run = 1
    /\ pc = "refs"
    /\ exit = ""
    /\ at = ""
    /\ page = 1
    /\ idx = 1
    /\ total_processed = 0
    /\ requested = <<1>>
    /\ completed = 0
    /\ prevExit = ""
    /\ key = <<>>
    /\ qop = ""
    /\ result = <<>>
    /\ checker = NoChecker

NextRecord ==
    \/ ProcessRefs
    \/ ProcessStation
    \/ PageCommit

SpecRecord == InitRecord /\ [][NextRecord]_vars

-----------------------------------------------------------------------------
(* What a run has written, computed from the records alone. *)

\* the store after the reference inserts of one record (none raising)
AfterReferences(s, rec) == ReferenceInserts(s, Normalize(rec)).st

\* the store after one whole record: lines 207-255
AfterRecord(s, rec) == insert_station(AfterReferences(s, rec), Normalize(rec)).st

\* the store after the first n records of recs, processed in order from s
RECURSIVE AfterRecords(_, _, _)
AfterRecords(s, recs, n) ==
    IF n = 0 THEN s
    ELSE AfterRecord(AfterRecords(s, recs, n - 1), recs[n])

\* records of the pages before the current one
Before(p) == (p - 1) * PAGE_SIZE

\* where the script is, or was when it halted
Position == IF pc = "halted" THEN at ELSE pc

NormalExit == {"no_data", "last_page"}

ValidCoordinates(row) ==
    /\ row.latitude # NoCoord
    /\ row.longitude # NoCoord
    /\ row.latitude[1] >= -90 /\ row.latitude[1] <= 90
    /\ row.longitude[1] >= -180 /\ row.longitude[1] <= 180

\* every foreign key of the store resolves
Referential(s) ==
    /\ \A st \in Range(s.station) :
          /\ st.code_commune \in CommuneCodes(s)
          /\ st.code_cours_eau \in CoursEauCodes(s)
    /\ \A c \in s.commune : c.code_departement \in DepartementCodes(s)
    /\ \A d \in s.departement : d.code_region \in RegionCodes(s)

-----------------------------------------------------------------------------
(* The query layer: station lookups of the two front-ends. *)

Alphabet == {"A", "1", " "}

\* str.replace(" ", "") and SQL REPLACE(x, ' ', '')
StripSpaces(c) == SelectSeq(c, LAMBDA ch : ch # " ")

\* str.strip()
RECURSIVE Trim(_)
Trim(c) ==
    IF c = <<>> THEN c
    ELSE IF Head(c) = " " THEN Trim(Tail(c))
    ELSE IF c[Len(c)] = " " THEN Trim(SubSeq(c, 1, Len(c) - 1))
    ELSE c

\* database.py lines 54-58: station JOIN commune JOIN departement JOIN region
\* JOIN cours_eau
StationJoin(s) ==
    {j \in Range(s.station) \X s.commune \X s.departement \X s.region \X s.cours_eau :
        /\ j[1].code_commune = j[2].code_commune
        /\ j[2].code_departement = j[3].code_departement
        /\ j[3].code_region = j[4].code_region
        /\ j[1].code_cours_eau = j[5].code_cours_eau}

\* database.py lines 45-53: the selected columns
DetailRow(j) ==
    [code_station        |-> j[1].code_station,
     libelle_station     |-> j[1].libelle_station,
     latitude            |-> j[1].latitude,
     longitude           |-> j[1].longitude,
     libelle_commune     |-> j[2].libelle_commune,
     libelle_departement |-> j[3].libelle_departement,
     libelle_region      |-> j[4].libelle_region,
     libelle_cours_eau   |-> j[5].libelle_cours_eau]

\* mutant: the key is compared as given
KeyAsGiven(code_station) == code_station

\* database.py line 61: the bound parameter
CleanKey(code_station) == StripSpaces(code_station)

\* database.py lines 44-61: the rows the SELECT of get_station_by_code yields
RowsByCode(s, code_station) ==
    {DetailRow(j) : j \in {x \in StationJoin(s) :
        StripSpaces(x[1].code_station) = CleanKey(code_station)}}

\* models.py lines 45-54: the rows the SELECT of Database.get_station yields
RowsExact(s, code_station) ==
    {[code_station    |-> j[1].code_station,
      libelle_station |-> j[1].libelle_station,
      latitude        |-> j[1].latitude,
      longitude       |-> j[1].longitude,
      libelle_commune |-> j[2].libelle_commune] :
        j \in {x \in Range(s.station) \X s.commune :
                 /\ x[1].code_commune = x[2].code_commune
                 /\ x[1].code_station = code_station}}

\* fetchone() / rows[0]: one of the rows (the SELECT has no ORDER BY), or None
FirstRow(rows) == IF rows = {} THEN {<<>>} ELSE {<<r>> : r \in rows}

Keys == SeqsUpTo(Alphabet, MaxCodeLen)

\* Each lookup opens its own connection, reads and keeps nothing: a behaviour
\* is one request (qop = "" until it is served).

\* database.py lines 39-64: DatabaseManager.get_station_by_code
get_station_by_code ==
    \E k \in Keys :
        /\ qop = ""
        /\ key' = k
        /\ qop' = "get_station_by_code"
        /\ result' \in FirstRow(RowsByCode(db, k))
        /\ UNCHANGED <<importVars, checker>>

\* app.py lines 40-48: the key is cleaned, then looked up
station_detail ==
    \E k \in Keys :
        /\ qop = ""
        /\ key' = k
        /\ qop' = "station_detail"
        /\ result' \in FirstRow(RowsByCode(db, StripSpaces(Trim(k))))
        /\ UNCHANGED <<importVars, checker>>

\* models.py lines 43-55: Database.get_station
get_station ==
    \E k \in Keys :
        /\ qop = ""
        /\ key' = k
        /\ qop' = "get_station"
        /\ result' \in FirstRow(RowsExact(db, k))
        /\ UNCHANGED <<importVars, checker>>

\* the store the front-ends read: one station under any code, and possibly a
\* second one under the code "A1" or "A 1", both imported by recup_data.py
QuerySources ==
    {<<[Base EXCEPT !.code_station = c]>> : c \in Keys \ {<<>>}} \cup
    {<<[Base EXCEPT !.code_station = c], r>> : c \in Keys \ {<<>>}, r \in {Alt, Spaced}}

InitQuery ==
    /\ source \in QuerySources
    /\ db = AfterRecords(EmptyStore, source, Len(source))
    /\ cur = db
    /\ run = 1
    /\ pc = "halted"
    /\ exit = IF Len(source) % PAGE_SIZE = 0 THEN "no_data" ELSE "last_page"
    /\ at = IF Len(source) % PAGE_SIZE = 0 THEN "fetch" ELSE "pagecommit"
    /\ page = (Len(source) \div PAGE_SIZE) + 1
    /\ pdata = PageOf(source, ((Len(source) - 1) \div PAGE_SIZE) + 1)
    /\ idx = Len(pdata)
    /\ total_processed = Len(source)
    /\ requested = [i \in 1..page |-> i]
    /\ completed = ((Len(source) - 1) \div PAGE_SIZE) + 1
    /\ prev = EmptyStore
    /\ prevExit = ""
    /\ key = <<>>
    /\ qop = ""
    /\ result = <<>>
    /\ checker = NoChecker

NextQuery ==
    \/ get_station_by_code
    \/ station_detail
    \/ get_station

SpecQuery == InitQuery /\ [][NextQuery]_vars

-----------------------------------------------------------------------------
(* The integrity-check scripts: test_sae204.py and test_database.py. *)

MinRows == 1

\* test_sae204.py MIN_ROWS, in the order the loop visits the tables
Tables == <<"region", "departement", "commune", "bassin", "cours_eau", "station">>

\* SELECT COUNT(*) FROM table
CountRows(s, table) ==
    IF table = "station" THEN Len(s.station) ELSE Cardinality(s[table])

\* PRAGMA foreign_key_check: one row per child row whose parent is missing
ForeignKeyViolations(s) ==
    {<<"departement", d.code_departement, "region">> :
        d \in {x \in s.departement : ~ForeignKeyOk(RegionCodes(s), x.code_region)}}
    \cup
    {<<"commune", c.code_commune, "departement">> :
        c \in {x \in s.commune :
                  ~ForeignKeyOk(DepartementCodes(s), x.code_departement)}}
    \cup
    {<<"station", st.code_station, "region">> :
        st \in {x \in Range(s.station) : ~ForeignKeyOk(RegionCodes(s), x.code_region)}}
    \cup
    {<<"station", st.code_station, "departement">> :
        st \in {x \in Range(s.station) :
                   ~ForeignKeyOk(DepartementCodes(s), x.code_departement)}}
    \cup
    {<<"station", st.code_station, "commune">> :
        st \in {x \in Range(s.station) : ~ForeignKeyOk(CommuneCodes(s), x.code_commune)}}
    \cup
    {<<"station", st.code_station, "bassin">> :
        st \in {x \in Range(s.station) : ~ForeignKeyOk(BassinCodes(s), x.code_bassin)}}
    \cup
    {<<"station", st.code_station, "cours_eau">> :
        st \in {x \in Range(s.station) :
                   ~ForeignKeyOk(CoursEauCodes(s), x.code_cours_eau)}}

TooFewRowsInclusive(count, min_rows) == count <= min_rows

\* test_sae204.py line 52
TooFewRows(count, min_rows) == count < min_rows

\* sys.exit(status)
Exit(status) ==
    checker' = [checker EXCEPT !.pc = "exited", !.status = status]

\* test_sae204.py lines 29-38: the file must exist, then the connection opens
sae204_open ==
    /\ checker.script = "test_sae204"
    /\ checker.pc = "open"
    /\ IF ~checker.exists THEN Exit(1)
       ELSE checker' = [checker EXCEPT !.pc = "foreign_key_check"]
    /\ UNCHANGED <<importVars, queryVars>>

\* test_sae204.py lines 40-47
sae204_foreign_key_check ==
    /\ checker.script = "test_sae204"
    /\ checker.pc = "foreign_key_check"
    /\ IF ForeignKeyViolations(db) # {} THEN Exit(1)
       ELSE checker' = [checker EXCEPT !.pc = "min_rows", !.table = 1]
    /\ UNCHANGED <<importVars, queryVars>>

\* test_sae204.py lines 50-55: one iteration of the loop over MIN_ROWS
sae204_min_rows ==
    /\ checker.script = "test_sae204"
    /\ checker.pc = "min_rows"
    /\ IF TooFewRows(CountRows(db, Tables[checker.table]), MinRows) THEN Exit(1)
       ELSE IF checker.table < Len(Tables)
            THEN checker' = [checker EXCEPT !.table = @ + 1]
            ELSE checker' = [checker EXCEPT !.pc = "example"]
    /\ UNCHANGED <<importVars, queryVars>>

\* test_sae204.py lines 57-73: the example join only prints, then exit 0
sae204_example ==
    /\ checker.script = "test_sae204"
    /\ checker.pc = "example"
    /\ Exit(0)
    /\ UNCHANGED <<importVars, queryVars>>

\* test_database.py lines 16-48: connect creates a missing file, every check
\* only prints its result, and the script ends without calling sys.exit
test_database ==
    /\ checker.script = "test_database"
    /\ checker.pc = "open"
    /\ checker' = [checker EXCEPT
          !.pc = "exited",
          !.status = 0,
          !.report = <<IF checker.exists THEN checker.integrity ELSE "ok",
                       IF checker.exists THEN ForeignKeyViolations(db) ELSE {},
                       IF checker.exists
                       THEN [i \in 1..Len(Tables) |-> CountRows(db, Tables[i])]
                       ELSE [i \in 1..Len(Tables) |-> -1]>>]
    /\ UNCHANGED <<importVars, queryVars>>

\* stores the scripts are run on: what an import left, possibly altered
\* afterwards outside the importer (a row or a whole table removed)
WithoutRow(s, table, row) ==
    IF table = "station"
    THEN [s EXCEPT !.station = SelectSeq(@, LAMBDA x : x # row)]
    ELSE [s EXCEPT ![table] = @ \ {row}]

Emptied(s, table) ==
    IF table = "station" THEN [s EXCEPT !.station = <<>>]
    ELSE [s EXCEPT ![table] = {}]

RowsOf(s, table) == IF table = "station" THEN Range(s.station) ELSE s[table]

Altered(s) ==
    {s} \cup {Emptied(s, Tables[i]) : i \in 1..Len(Tables)}
        \cup UNION {{WithoutRow(s, Tables[i], row) : row \in RowsOf(s, Tables[i])} :
                       i \in 1..Len(Tables)}

CheckSources == {<<Base>>, <<Alt, Spaced>>, <<NoCoursCode>>, <<Base, NoBassinLabel>>}

InitCheck ==
    /\ source \in CheckSources
    /\ \E exists \in BOOLEAN :
          /\ db \in IF exists THEN Altered(AfterRecords(EmptyStore, source, Len(source)))
                    ELSE {EmptyStore}
          /\ \E script \in {"test_sae204", "test_database"},
                integrity \in {"ok", "corrupt"} :
                /\ exists \/ integrity = "ok"
                /\ checker = [NoChecker EXCEPT !.script = script, !.pc = "open",
                                               !.exists = exists,
                                               !.integrity = integrity]
    /\ cur = db
    /\ run = 1
    /\ pc = "halted"
    /\ exit = IF Len(source) % PAGE_SIZE = 0 THEN "no_data" ELSE "last_page"
    /\ at = IF Len(source) % PAGE_SIZE = 0 THEN "fetch" ELSE "pagecommit"
    /\ page = (Len(source) \div PAGE_SIZE) + 1
    /\ pdata = PageOf(source, ((Len(source) - 1) \div PAGE_SIZE) + 1)
    /\ idx = Len(pdata)
    /\ total_processed = Len(source)
    /\ requested = [i \in 1..page |-> i]
    /\ completed = ((Len(source) - 1) \div PAGE_SIZE) + 1
    /\ prev = EmptyStore
    /\ prevExit = ""
    /\ key = <<>>
    /\ qop = ""
    /\ result = <<>>

NextCheck ==
    \/ sae204_open
    \/ sae204_foreign_key_check
    \/ sae204_min_rows
    \/ sae204_example
    \/ test_database

SpecCheck == InitCheck /\ [][NextCheck]_vars

-----------------------------------------------------------------------------
(* The home listing: app.py home() over DatabaseManager.get_all_stations(). *)

MaxSearchLen == 3

\* characters a search string is typed with
SearchAlphabet == {"A", "a", "1", " "}

\* str.lower(), character by character
LowerChar(ch) == IF ch = "A" THEN "a" ELSE IF ch = "B" THEN "b" ELSE ch

Lower(c) == [i \in 1..Len(c) |-> LowerChar(c[i])]

\* the characters of the station labels used in the listing
Chars(label) ==
    CASE label = "Aa"  -> <<"A", "a">>
      [] label = "a 1" -> <<"a", " ", "1">>
      [] label = "B1"  -> <<"B", "1">>

\* needle in hay, on strings
Contains(hay, needle) ==
    \E i \in 0..(Len(hay) - Len(needle)) :
        SubSeq(hay, i + 1, i + Len(needle)) = needle

\* database.py lines 12-37: the joined rows, code_station with spaces removed
get_all_stations(s) ==
    LET Joined(st) == {j \in StationJoin(s) : j[1] = st}
        rows == SelectSeq(s.station, LAMBDA st : Joined(st) # {})
    IN  [i \in 1..Len(rows) |->
            LET j == CHOOSE x \in Joined(rows[i]) : TRUE
            IN  [DetailRow(j) EXCEPT !.code_station = StripSpaces(@)]]

\* sorted(set(labels)): comparing None with a str raises TypeError
Sortable(labels) == NULL \notin labels \/ Cardinality(labels) <= 1

\* app.py lines 16-38: the outcome of one request
Home(s, args) ==
    LET region      == args.region
        departement == args.departement
        search      == Trim(Lower(args.search))
        all         == get_all_stations(s)
        byRegion    == IF ~Falsy(region)
                       THEN SelectSeq(all, LAMBDA r : r.libelle_region = region)
                       ELSE all
        byDepartement ==
                       IF ~Falsy(departement)
                       THEN SelectSeq(byRegion,
                                LAMBDA r : r.libelle_departement = departement)
                       ELSE byRegion
        bySearch    == IF search # <<>>
                       THEN SelectSeq(byDepartement,
                                LAMBDA r :
                                   \/ Contains(Lower(Chars(r.libelle_station)), search)
                                   \/ Contains(Lower(r.code_station), search))
                       ELSE byDepartement
        regions      == {r.libelle_region : r \in Range(all)}
        departements == {r.libelle_departement : r \in Range(all)}
    IN  IF Sortable(regions) /\ Sortable(departements)
        THEN [raised |-> FALSE, stations |-> bySearch,
              regions |-> regions, departements |-> departements]
        ELSE [raised |-> TRUE, stations |-> <<>>,
              regions |-> {}, departements |-> {}]

\* request.args of GET /
HomeArgs ==
    [region      : {NULL, "", "Auvergne", "Occitanie"},
     departement : {NULL, "", "Cantal", "Lot"},
     search      : SeqsUpTo(SearchAlphabet, MaxSearchLen)]

home ==
    \E args \in HomeArgs :
        /\ qop = ""
        /\ key' = args
        /\ qop' = "home"
        /\ result' = Home(db, args)
        /\ UNCHANGED <<importVars, checker>>

\* stations of two departements of two regions
Listed == [Base EXCEPT !.libelle_station = "Aa"]

ListedElsewhere ==
    [Base EXCEPT !.code_region = "R2", !.libelle_region = "Occitanie",
                 !.code_departement = "D2", !.libelle_departement = "Lot",
                 !.code_commune = "C2", !.libelle_commune = "Figeac",
                 !.code_station = <<"1", " ", "A">>, !.libelle_station = "a 1"]

ListedSameDepartement ==
    [Base EXCEPT !.code_station = <<"A", " ", "1">>, !.libelle_station = "B1"]

\* the source gives no label for the departement
ListedNoDepartementLabel == [ListedElsewhere EXCEPT !.libelle_departement = ""]

HomeSources ==
    {<<Listed>>, <<Listed, ListedElsewhere>>, <<Listed, ListedSameDepartement>>,
     <<ListedNoDepartementLabel>>, <<Listed, ListedNoDepartementLabel>>,
     <<Listed, ListedSameDepartement, ListedElsewhere>>}

InitHome ==
    /\ source \in HomeSources
    /\ db = AfterRecords(EmptyStore, source, Len(source))
    /\ cur = db
    /\ run = 1
    /\ pc = "halted"
    /\ exit = IF Len(source) % PAGE_SIZE = 0 THEN "no_data" ELSE "last_page"
    /\ at = IF Len(source) % PAGE_SIZE = 0 THEN "fetch" ELSE "pagecommit"
    /\ page = (Len(source) \div PAGE_SIZE) + 1
    /\ pdata = PageOf(source, ((Len(source) - 1) \div PAGE_SIZE) + 1)
    /\ idx = Len(pdata)
    /\ total_processed = Len(source)
    /\ requested = [i \in 1..page |-> i]
    /\ completed = ((Len(source) - 1) \div PAGE_SIZE) + 1
    /\ prev = EmptyStore
    /\ prevExit = ""
    /\ key = <<>>
    /\ qop = ""
    /\ result = <<>>
    /\ checker = NoChecker

NextHome == home

SpecHome == InitHome /\ [][NextHome]_vars

-----------------------------------------------------------------------------
(* Claims about the import. *)

\* C1 (as stated): a second complete run over the same source, on the store a
\* complete first run left, raises no error and leaves every table as it was.
C1_SecondRunChangesNothing ==
    (run = 2 /\ prevExit \in NormalExit /\ pc = "halted"
             /\ exit \notin {"interrupt", "http_error"})
        => (exit \in NormalExit /\ db = prev)

\* C2: in every state, committed or not, every station's commune and
\* watercourse, every commune's departement and every departement's region
\* resolve to an existing row.
C2_ReferentialCompleteness == Referential(db) /\ Referential(cur)

C2_Witness ==
    /\ db.station # <<>>
    /\ db.commune # {}
    /\ db.departement # {}
    /\ Len(cur.station) > Len(db.station)

\* C3 (as stated): no persisted station has a null or out-of-range coordinate.
C3_CoordinateGuard == \A st \in Range(db.station) : ValidCoordinates(st)

\* C4 (as stated): a run that fails or is interrupted inside page N leaves the
\* committed store as the commit of page N-1 left it.
C4_PageAtomic ==
    (pc = "halted" /\ exit \in {"interrupt", "IntegrityError"}
                   /\ at \in {"refs", "station", "pagecommit"})
        => db = AfterRecords(prev, source, Before(page))

\* the committed store at each position of the loop: the intermediate commit
\* of record i makes its reference rows and the station of record i-1 durable
CommittedAt(pos) ==
    CASE pos = "fetch" -> AfterRecords(prev, source, Before(page))
      [] pos = "refs" ->
            IF idx = 1 THEN AfterRecords(prev, source, Before(page))
            ELSE AfterReferences(AfterRecords(prev, source, Before(page) + idx - 2),
                                 source[Before(page) + idx - 1])
      [] pos \in {"station", "pagecommit"} ->
            AfterReferences(AfterRecords(prev, source, Before(page) + idx - 1),
                            source[Before(page) + idx])

\* C4 (amended): the durable unit is the commit, and there is one per record:
\* wherever the run stands, fails or is interrupted, the committed store holds
\* the reference rows of every record processed so far and the stations of all
\* of them but the last.
C4_RecordCommits ==
    (pc # "halted" \/ exit \in {"interrupt", "IntegrityError"})
        => db = CommittedAt(Position)

C4_Witness ==
    /\ pc = "halted" /\ exit = "interrupt" /\ at = "refs" /\ idx = 2
    /\ db # AfterRecords(prev, source, Before(page))
    /\ db # AfterRecords(prev, source, Before(page) + 1)

\* C5: pages are requested in order 1, 2, 3, ...; every page requested before
\* the last one was full; the loop exits on the first empty or short page; after
\* N full pages and an empty one exactly N pages were processed and nothing was
\* inserted for page N+1; a short page is processed and committed whole.
C5_LastPageDetection ==
    /\ \A i \in 1..Len(requested) : requested[i] = i
    /\ \A i \in 1..(Len(requested) - 1) : Len(PageOf(source, i)) = PAGE_SIZE
    /\ pc \in {"refs", "station", "pagecommit"} =>
          (pdata = PageOf(source, page) /\ pdata # <<>>)
    /\ exit = "no_data" =>
          /\ PageOf(source, Len(requested)) = <<>>
          /\ completed = Len(requested) - 1
          /\ total_processed = completed * PAGE_SIZE
          /\ db = AfterRecords(prev, source, completed * PAGE_SIZE)
    /\ exit = "last_page" =>
          /\ PageOf(source, Len(requested)) # <<>>
          /\ Len(PageOf(source, Len(requested))) < PAGE_SIZE
          /\ completed = Len(requested)
          /\ total_processed = Len(source)
          /\ db = AfterRecords(prev, source, Len(source))

C5_Witness ==
    /\ exit = "no_data"
    /\ completed >= 1
    /\ db.station # <<>>

\* C7 (as stated): no record makes the run fail on an integrity error.
C7_NeverFatal == exit # "IntegrityError"

\* C8: once the fetch of page k has failed the script has halted: k is the last
\* page requested, no record of page k or later was processed, and the store is
\* the one the commits of pages 1..k-1 left.
C8_TransportFailureHalts ==
    exit = "http_error" =>
        /\ pc = "halted"
        /\ Len(requested) = page
        /\ \A i \in 1..Len(requested) : requested[i] <= page
        /\ completed = page - 1
        /\ total_processed = Before(page)
        /\ db = AfterRecords(prev, source, Before(page))

C8_Witness ==
    /\ exit = "http_error"
    /\ page = 2
    /\ db.station # <<>>

\* the record carries its region, departement and commune codes and labels
GeographyComplete(rec) ==
    \A f \in {"code_region", "libelle_region", "code_departement",
              "libelle_departement", "code_commune", "libelle_commune"} :
        ~Falsy(rec[f])

\* C6: a record with its whole geography chain and no watercourse code (null
\* or "") never raises; once its reference inserts are done its region,
\* departement and commune rows are committed; and the station table, open or
\* committed, stays as it was before the record.
C6_PartialRecord ==
    (GeographyComplete(pdata[1]) /\ Falsy(pdata[1].code_cours_eau)) =>
        /\ exit # "IntegrityError"
        /\ pc # "refs" =>
              /\ pdata[1].code_region \in RegionCodes(db)
              /\ pdata[1].code_departement \in DepartementCodes(db)
              /\ pdata[1].code_commune \in CommuneCodes(db)
              /\ cur.station = prev.station
              /\ db.station = prev.station

C6_Witness ==
    /\ pc = "halted" /\ exit = "last_page"
    /\ GeographyComplete(pdata[1]) /\ pdata[1].code_cours_eau = ""
    /\ pdata[1].code_station # <<>> /\ pdata[1].code_bassin # NULL
    /\ prev = EmptyStore
    /\ db.commune # {} /\ db.station = <<>>

-----------------------------------------------------------------------------
(* Claims about the query layer. *)

\* a and b are the same text once their spaces are left out
RECURSIVE SameIgnoringSpaces(_, _)
SameIgnoringSpaces(a, b) ==
    IF a # <<>> /\ Head(a) = " " THEN SameIgnoringSpaces(Tail(a), b)
    ELSE IF b # <<>> /\ Head(b) = " " THEN SameIgnoringSpaces(a, Tail(b))
    ELSE IF a = <<>> \/ b = <<>> THEN a = b
    ELSE Head(a) = Head(b) /\ SameIgnoringSpaces(Tail(a), Tail(b))

\* the stored stations whose code is the key, spaces apart
Matching(k) ==
    {st \in Range(db.station) : SameIgnoringSpaces(st.code_station, k)}

\* C9 (as stated): get_station_by_code returns every stored station whose code
\* equals the key once spaces are removed, and None when there is none.
C9_ReturnsThatStation ==
    qop = "get_station_by_code" =>
        /\ \A st \in Matching(key) :
              result # <<>> /\ result[1].code_station = st.code_station
        /\ Matching(key) = {} => result = <<>>

\* C9 (amended): get_station_by_code returns a stored station whose code equals
\* the key once spaces are removed, whenever there is one (the station itself
\* when no other stored code has the same letters), with the labels its joins
\* give, and None when there is none.
C9_ReturnsAMatchingStation ==
    qop = "get_station_by_code" =>
        IF Matching(key) = {} THEN result = <<>>
        ELSE /\ result # <<>>
             /\ \E st \in Matching(key) :
                   /\ result[1].code_station = st.code_station
                   /\ result[1].libelle_station = st.libelle_station
                   /\ \E c \in db.commune :
                         /\ c.code_commune = st.code_commune
                         /\ result[1].libelle_commune = c.libelle_commune

C9_Witness ==
    /\ qop = "get_station_by_code"
    /\ key = <<"A", "1">>
    /\ result # <<>>
    /\ result[1].code_station = <<"A", " ", "1">>
    /\ Cardinality(Matching(key)) = 2

\* C10 (as stated): Database.get_station finds a stored station whenever its
\* code equals the key once whitespace is removed.
C10_GetStationIgnoresSpaces ==
    (qop = "get_station" /\ Matching(key) # {}) =>
        /\ result # <<>>
        /\ SameIgnoringSpaces(result[1].code_station, key)

-----------------------------------------------------------------------------
(* Claims about the integrity-check scripts. *)

\* no child row points at a missing parent
AllParentsExist(s) ==
    /\ \A d \in s.departement : d.code_region \in RegionCodes(s) \cup {NULL}
    /\ \A c \in s.commune : c.code_departement \in DepartementCodes(s) \cup {NULL}
    /\ \A st \in Range(s.station) :
          /\ st.code_region \in RegionCodes(s) \cup {NULL}
          /\ st.code_departement \in DepartementCodes(s) \cup {NULL}
          /\ st.code_commune \in CommuneCodes(s) \cup {NULL}
          /\ st.code_bassin \in BassinCodes(s) \cup {NULL}
          /\ st.code_cours_eau \in CoursEauCodes(s) \cup {NULL}

AllTablesPopulated(s) ==
    /\ s.region # {} /\ s.departement # {} /\ s.commune # {}
    /\ s.bassin # {} /\ s.cours_eau # {} /\ s.station # <<>>

\* C11 (as stated): run on an existing store, an integrity-check script exits
\* with status 0 exactly when the structural scan, the foreign-key scan and
\* the six row counts all pass, and with status 1 otherwise.
C11_ExitZeroIffThreeChecksPass ==
    (checker.pc = "exited" /\ checker.exists) =>
        /\ checker.status \in {0, 1}
        /\ checker.status = 0 <=>
              /\ checker.integrity = "ok"
              /\ AllParentsExist(db)
              /\ AllTablesPopulated(db)

\* C11 (amended): test_sae204.py runs no structural scan; it exits 0 exactly
\* when the store file exists, the foreign-key scan returns no row and each of
\* the six tables has at least one row, and exits 1 at the first of these that
\* fails, before the later ones run. test_database.py runs the structural and
\* the foreign-key scan and counts the rows but only prints what it finds: it
\* exits 0 whatever the outcome.
C11_ExitStatusPerScript ==
    /\ checker.script = "test_sae204" =>
          /\ checker.pc = "exited" =>
                /\ checker.status \in {0, 1}
                /\ checker.status = 0 <=>
                      /\ checker.exists
                      /\ AllParentsExist(db)
                      /\ AllTablesPopulated(db)
          /\ (checker.pc = "foreign_key_check") => checker.exists
          /\ (checker.pc = "min_rows") =>
                /\ AllParentsExist(db)
                /\ \A i \in 1..(checker.table - 1) : CountRows(db, Tables[i]) >= 1
          /\ (checker.pc = "example") => AllParentsExist(db) /\ AllTablesPopulated(db)
    /\ (checker.script = "test_database" /\ checker.pc = "exited") =>
          /\ checker.status = 0
          /\ checker.exists =>
                /\ checker.report[1] = checker.integrity
                /\ (checker.report[2] = {}) <=> AllParentsExist(db)

\* test_sae204.py exited 0 on a store whose structural scan would fail, and
\* test_sae204.py exited 1 on a dangling reference with every table populated
C11_Witness ==
    /\ checker.script = "test_sae204"
    /\ checker.pc = "exited"
    /\ \/ checker.status = 0 /\ checker.integrity = "corrupt"
       \/ /\ checker.status = 1
          /\ checker.exists
          /\ ~AllParentsExist(db)
          /\ AllTablesPopulated(db)

-----------------------------------------------------------------------------
(* Claims about the home listing. *)

\* the station row passes every supplied filter
PassesFilters(row, args) ==
    /\ args.region \in {NULL, ""} \/ row.libelle_region = args.region
    /\ args.departement \in {NULL, ""} \/ row.libelle_departement = args.departement
    /\ \/ Contains(Lower(Chars(row.libelle_station)), Trim(Lower(args.search)))
       \/ Contains(Lower(row.code_station), Trim(Lower(args.search)))

\* C12 (as stated): the home listing raises no error and returns exactly the
\* stations of get_all_stations that pass every supplied filter, each once and
\* in their order; when none passes, the list is empty.
C12_HomeListsMatchingStations ==
    qop = "home" =>
        /\ ~result.raised
        /\ result.stations =
              SelectSeq(get_all_stations(db), LAMBDA row : PassesFilters(row, key))

\* the filtering alone: whenever the handler returns, the list is the one stated
C12_ListWhenReturned ==
    (qop = "home" /\ ~result.raised) =>
        result.stations =
            SelectSeq(get_all_stations(db), LAMBDA row : PassesFilters(row, key))

-----------------------------------------------------------------------------
(* Claims about the references a station needs. *)

FiveCodes ==
    {"code_region", "code_departement", "code_commune", "code_bassin",
     "code_cours_eau"}

\* the record's station is new to the store and has a code and a label
NewStation(rec, s) ==
    /\ rec.code_station # <<>>
    /\ rec.code_station \notin StationCodes(s)
    /\ ~Falsy(rec.libelle_station)

\* the record's commune and watercourse codes are present and stored in s
CommuneAndCoursEauStored(rec, s) ==
    /\ ~Falsy(rec.code_commune) /\ rec.code_commune \in CommuneCodes(s)
    /\ ~Falsy(rec.code_cours_eau) /\ rec.code_cours_eau \in CoursEauCodes(s)

-----------------------------------------------------------------------------
(* Claims about what the import does to rows already stored. *)

KeyOf ==
    [region |-> "code_region", departement |-> "code_departement",
     commune |-> "code_commune", bassin |-> "code_bassin",
     cours_eau |-> "code_cours_eau"]

\* every row of store a is in store b as it was, and b has no second row for
\* a natural key of a
Keeps(a, b) ==
    /\ \A t \in DOMAIN KeyOf :
          /\ a[t] \subseteq b[t]
          /\ \A x \in b[t] \ a[t] : \A y \in a[t] : x[KeyOf[t]] # y[KeyOf[t]]
    /\ Len(a.station) <= Len(b.station)
    /\ SubSeq(b.station, 1, Len(a.station)) = a.station
    /\ \A i \in (Len(a.station) + 1)..Len(b.station) :
          b.station[i].code_station \notin StationCodes(a)

\* a label no record carries, and none
OtherLabels == {NULL, "Autre"}

\* a parent code no table holds, and none
OtherCodes == {NULL, "X9"}

\* each insert function, given a natural key that s already holds and any
\* other values, leaves s as it is and raises nothing
UpsertOfStoredKeyIsNoOp(s) ==
    /\ \A x \in s.region : \A l \in OtherLabels :
          insert_region(s, x.code_region, l) = Done(s)
    /\ \A x \in s.departement : \A l \in OtherLabels, p \in OtherCodes :
          insert_departement(s, x.code_departement, l, p) = Done(s)
    /\ \A x \in s.commune : \A l \in OtherLabels, p \in OtherCodes :
          insert_commune(s, x.code_commune, l, p) = Done(s)
    /\ \A x \in s.bassin : \A l \in OtherLabels :
          insert_bassin(s, x.code_bassin, l) = Done(s)
    /\ \A x \in s.cours_eau : \A l \in OtherLabels :
          insert_cours_eau(s, x.code_cours_eau, l) = Done(s)
    /\ \A x \in Range(s.station) : \A rec \in {Base, Alt, Lat95} :
          insert_station(s, [Normalize(rec) EXCEPT !.code_station = x.code_station])
             = Done(s)

\* C14: no step of any run, commit, failure, interruption or rerun removes or
\* changes a committed row or adds a second row for a committed natural key;
\* the same holds of the rows of the open transaction at every step that does
\* not end the run (a run that fails loses only what it had not committed);
\* and in every state of the store each upsert given a stored natural key with
\* another label, parent code or coordinates leaves all six tables as they are
\* (the committed store is always a store the transaction went through).
C14_AppendOnlyFirstWriterWins ==
    /\ []UpsertOfStoredKeyIsNoOp(cur)
    /\ [][/\ Keeps(db, db')
          /\ (run' = run /\ pc' # "halted") => Keeps(cur, cur')]_vars

\* the reference inserts of a record have run whose departement code is stored
\* with another label and another region, and whose station code is stored
\* with other coordinates
C14_Witness ==
    /\ pc = "station"
    /\ \E d \in cur.departement :
          /\ d.code_departement = pdata[idx].code_departement
          /\ d.libelle_departement # pdata[idx].libelle_departement
          /\ d.code_region # pdata[idx].code_region
    /\ \E st \in Range(db.station) :
          /\ st.code_station = pdata[idx].code_station
          /\ st.latitude # pdata[idx].latitude

====
